---- MODULE Spec2Model ----
(***************************************************************************)
(* RFP Document Manager: the document store (load / save / id assignment), *)
(* the two query tools, the tool-calling chat completion and the Streamlit *)
(* session handlers (upload, Clear Chat, Clear Documents, chat input).     *)
(*                                                                         *)
(* Text is modelled as a sequence of lines, a line as a tuple of the       *)
(* string pieces the code concatenates; <<"">> is an empty line.           *)
(***************************************************************************)
EXTENDS Integers, Sequences, FiniteSets, TLC

VARIABLES
    session,          \* "start" | "ready" | "crashed": the script run state
    file,             \* persisted state: the storage file rfp_documents.json
    documents,        \* st.session_state.documents
    processed_files,  \* st.session_state.processed_files
    chat_history,     \* st.session_state.chat_history
    last,             \* the last handler run: its inputs, result and messages sent
    assigned          \* ids handed out by the upload handler, with their epoch

vars == <<session, file, documents, processed_files, chat_history, last, assigned>>

----------------------------------------------------------------------------
(* Bounds of the model *)

MaxDocs == 2          \* length of the in-memory document list
MaxAssigned == 3      \* uploads that reach id assignment in one run
MaxExchanges == 2     \* chat questions between two Clear Chat resets
MaxStore == 3         \* records in a store the tool specification starts from

----------------------------------------------------------------------------
(* Values *)

\* Python None for an Optional[str] field
None == "<None>"

\* Python None for the Optional[int] id field; real ids are positive here
NoneId == -1

\* Python max(iterable, default=default)
RECURSIVE SeqMax(_, _)
SeqMax(s, default) ==
    IF s = <<>> THEN default
    ELSE IF Len(s) = 1 THEN Head(s)
    ELSE LET m == SeqMax(Tail(s), default)
         IN  IF Head(s) > m THEN Head(s) ELSE m

Range(s) == {s[i] : i \in 1..Len(s)}

RECURSIVE Flatten(_)
Flatten(ss) == IF ss = <<>> THEN <<>> ELSE Head(ss) \o Flatten(Tail(ss))

\* Python truthiness of an Optional[str]: None and "" are falsy
Truthy(v) == v /= None /\ v /= ""

RFPDocument(id, title, company, description, requirements, contact, deadline, budget) ==
    [id |-> id, title |-> title, company |-> company, description |-> description,
     requirements |-> requirements, contact |-> contact, deadline |-> deadline,
     budget |-> budget]

ChatMessage(role, content) == [role |-> role, content |-> content]

\* Pydantic validation of one stored dict: title and company are required strings
ValidRecord(d) == d.title /= None /\ d.company /= None

----------------------------------------------------------------------------
(* Persisted state *)

FileAbsent == [kind |-> "absent", data |-> <<>>]
FileNotJson == [kind |-> "notjson", data |-> <<>>]
FileScalar == [kind |-> "scalar", data |-> <<>>]
FileList(data) == [kind |-> "list", data |-> data]

\* load_documents: the documents read, or the exception that escapes
load_documents(f) ==
    CASE f.kind = "absent" -> [exc |-> "", docs |-> <<>>]
      [] f.kind = "notjson" -> [exc |-> "", docs |-> <<>>]
      [] f.kind = "scalar" -> [exc |-> "TypeError", docs |-> <<>>]
      [] f.kind = "list" ->
            IF \A i \in 1..Len(f.data) : ValidRecord(f.data[i])
            THEN [exc |-> "", docs |-> f.data]
            ELSE [exc |-> "ValidationError", docs |-> <<>>]

\* save_documents under an I/O outcome: "ok", "open_fails" (the file is left
\* as it was) or "write_fails" (the file was truncated by open(..., 'w') and
\* holds a prefix of the JSON text)
save_documents(f, docs, io) ==
    CASE io = "ok" -> [exc |-> "", file |-> FileList(docs)]
      [] io = "open_fails" -> [exc |-> "OSError", file |-> f]
      [] io = "write_fails" -> [exc |-> "OSError", file |-> FileNotJson]

\* get_next_id numbering by position instead of by the largest id held
get_next_id_count(docs) == Len(docs) + 1

get_next_id(docs) ==
    IF docs = <<>> THEN 1
    ELSE LET ids == [i \in 1..Len(docs) |-> docs[i].id]
         IN  SeqMax(SelectSeq(ids, LAMBDA x : x /= NoneId), 0) + 1

----------------------------------------------------------------------------
(* Text *)

Blank == <<"">>

\* str.strip() on text whose lines hold no other whitespace: leading and
\* trailing empty lines go
RECURSIVE LStrip(_)
LStrip(t) == IF t /= <<>> /\ Head(t) = Blank THEN LStrip(Tail(t)) ELSE t

RECURSIVE RStrip(_)
RStrip(t) ==
    IF t /= <<>> /\ t[Len(t)] = Blank THEN RStrip(SubSeq(t, 1, Len(t) - 1)) ELSE t

Strip(t) == RStrip(LStrip(t))

\* One "**Label:** value\n\n" piece, written only for a truthy value
SummaryField(label, v) == IF Truthy(v) THEN <<<<label, v>>, Blank>> ELSE <<>>

show_document_summary(doc) ==
    <<<<"### ", doc.title>>, Blank>>
    \o <<<<"**Company:** ", doc.company>>, Blank>>
    \o SummaryField("**Description:** ", doc.description)
    \o SummaryField("**Requirements:** ", doc.requirements)
    \o SummaryField("**Contact:** ", doc.contact)
    \o SummaryField("**Deadline:** ", doc.deadline)
    \o SummaryField("**Budget:** ", doc.budget)

TableHeader == <<"| ID | Title | Company | Deadline |">>
TableSeparator == <<"|---|---|---|---|">>

TableRow(doc) ==
    LET doc_id == IF doc.id /= NoneId THEN ToString(doc.id) ELSE "N/A"
        title == IF doc.title /= "" THEN doc.title ELSE "N/A"
        company == IF doc.company /= "" THEN doc.company ELSE "N/A"
        deadline == IF Truthy(doc.deadline) THEN doc.deadline ELSE "N/A"
    IN  <<"| ", doc_id, " | ", title, " | ", company, " | ", deadline, " |">>

show_document_table_always_header(docs) ==
    <<TableHeader, TableSeparator>> \o [i \in 1..Len(docs) |-> TableRow(docs[i])]

show_document_table(docs) ==
    IF docs = <<>> THEN << <<"No documents available.">> >>
    ELSE <<TableHeader, TableSeparator>> \o [i \in 1..Len(docs) |-> TableRow(docs[i])]

----------------------------------------------------------------------------
(* Tool invocations as the model service returns them *)

\* A JSON value in an ids array: an integer, or a string of the digits of n
JInt(n) == <<"int", n>>
JStr(n) == <<"str", n>>

\* tool_call.function.arguments: text that is not JSON, a JSON array, or a
\* JSON object whose "ids" member is missing, null, a non-zero number or an array
ArgsUnparseable == [kind |-> "unparseable", ids |-> "none", elems |-> <<>>]
ArgsArray == [kind |-> "array", ids |-> "none", elems |-> <<>>]
ArgsNoIds == [kind |-> "object", ids |-> "missing", elems |-> <<>>]
ArgsNullIds == [kind |-> "object", ids |-> "null", elems |-> <<>>]
ArgsNumberIds == [kind |-> "object", ids |-> "number", elems |-> <<>>]
ArgsIds(elems) == [kind |-> "object", ids |-> "list", elems |-> elems]

ToolCall(name, args) == [name |-> name, arguments |-> args]

\* d.id == doc_id / d.id in ids, for a JSON value against a stored id
IdEquals(id, v) == id /= NoneId /\ v = JInt(id)

\* f"{doc_id}"
Render(v) == ToString(v[2])

NotFoundLine(v) == <<"Document with ID ", Render(v), " not found.">>

\* next((d for d in documents if d.id == doc_id), None): index of the first match, 0 for None
FirstMatch(docs, v) ==
    IF \E i \in 1..Len(docs) : IdEquals(docs[i].id, v)
    THEN CHOOSE i \in 1..Len(docs) :
            /\ IdEquals(docs[i].id, v)
            /\ \A j \in 1..(i - 1) : ~IdEquals(docs[j].id, v)
    ELSE 0

\* the loop of the show_document_summary branch
RECURSIVE SummaryLoop(_, _, _)
SummaryLoop(elems, docs, result) ==
    IF elems = <<>> THEN result
    ELSE LET i == FirstMatch(docs, Head(elems))
             piece == IF i /= 0
                      THEN show_document_summary(docs[i]) \o <<Blank, <<"---">>, Blank>>
                      ELSE <<NotFoundLine(Head(elems)), Blank>>
         IN  SummaryLoop(Tail(elems), docs, result \o piece)

Returned(text) == [exc |-> "", text |-> text]
Raised(exc) == [exc |-> exc, text |-> <<>>]

\* the show_document_summary branch of get_completion
SummarizeSkippingMissing(args, docs) ==
    Returned(Strip(SummaryLoop(
        SelectSeq(args.elems, LAMBDA v : FirstMatch(docs, v) /= 0), docs, <<>>)))

Summarize(args, docs) ==
    CASE args.ids = "missing" -> Returned(<<>>)
      [] args.ids = "list" -> Returned(Strip(SummaryLoop(args.elems, docs, <<>>)))
      [] OTHER -> Raised("TypeError")

\* the show_document_table branch of get_completion
TabulateAllWhenUnmatched(args, docs) ==
    LET sel == SelectSeq(docs, LAMBDA d : \E k \in 1..Len(args.elems) :
                                             IdEquals(d.id, args.elems[k]))
    IN  Returned(show_document_table(IF sel = <<>> THEN docs ELSE sel))

Tabulate(args, docs) ==
    CASE args.ids = "missing" -> Returned(show_document_table(docs))
      [] args.ids = "null" -> Returned(show_document_table(docs))
      [] args.ids = "number" ->
            IF docs = <<>> THEN Returned(show_document_table(<<>>))
            ELSE Raised("TypeError")
      [] args.ids = "list" ->
            IF args.elems /= <<>>
            THEN Returned(show_document_table(
                    SelectSeq(docs, LAMBDA d : \E k \in 1..Len(args.elems) :
                                                  IdEquals(d.id, args.elems[k]))))
            ELSE Returned(show_document_table(docs))

----------------------------------------------------------------------------
(* The chat completion *)

\* response.choices[0].message, or the model call raising
ResponseRaises == [kind |-> "raise", content |-> None, tool_calls |-> <<>>]
Message(content, tool_calls) ==
    [kind |-> "message", content |-> content, tool_calls |-> tool_calls]

\* [system_message] + messages; the system turn embeds docs_context
FullMessages(messages, docs_context) ==
    <<ChatMessage("system", docs_context)>> \o messages

\* return assistant_message.content or "No response generated."
PlainText(resp) ==
    Returned(IF Truthy(resp.content) THEN << <<resp.content>> >>
             ELSE << <<"No response generated.">> >>)

\* the tool branch reading the snapshot's documents instead of the file
DispatchOnSnapshot(resp, docs_context, f) ==
    LET tool_call == resp.tool_calls[1]
        function_name == tool_call.name
        function_args == tool_call.arguments
    IN  IF function_args.kind = "unparseable" THEN Raised("JSONDecodeError")
        ELSE IF function_name = "show_document_summary" THEN Summarize(function_args, docs_context)
        ELSE IF function_name = "show_document_table" THEN Tabulate(function_args, docs_context)
        ELSE PlainText(resp)

\* get_completion from "if assistant_message.tool_calls:" on
Dispatch(resp, docs_context, f) ==
    LET tool_call == resp.tool_calls[1]
        function_name == tool_call.name
        function_args == tool_call.arguments
        loaded == load_documents(f)
    IN  IF function_args.kind = "unparseable" THEN Raised("JSONDecodeError")
        ELSE IF loaded.exc /= "" THEN Raised(loaded.exc)
        ELSE IF function_name = "show_document_summary"
        THEN IF function_args.kind = "array" THEN Raised("AttributeError")
             ELSE Summarize(function_args, loaded.docs)
        ELSE IF function_name = "show_document_table"
        THEN IF function_args.kind = "array" THEN Raised("AttributeError")
             ELSE Tabulate(function_args, loaded.docs)
        ELSE PlainText(resp)

get_completion(messages, docs_context, resp, f) ==
    IF resp.kind = "raise" THEN Raised("APIError")
    ELSE IF resp.tool_calls /= <<>> THEN Dispatch(resp, docs_context, f)
    ELSE PlainText(resp)

----------------------------------------------------------------------------
(* The session handlers *)

UserTurn(user_input) == ChatMessage("user", << <<user_input>> >>)

ErrorText(exc) == << <<"Sorry, I encountered an error: ", exc>> >>

\* the chat input handler losing the assistant turn when the call raises
ChatInputDropsOnError(history, docs, f, user_input, resp) ==
    LET h1 == Append(history, UserTurn(user_input))
        result == get_completion(h1, docs, resp, f)
    IN  [history |-> IF result.exc = ""
                     THEN Append(h1, ChatMessage("assistant", result.text))
                     ELSE h1,
         sent |-> FullMessages(h1, docs),
         result |-> result]

\* the chat input handler: the history after it, the messages it sent and
\* what get_completion gave back
ChatInput(history, docs, f, user_input, resp) ==
    LET h1 == Append(history, UserTurn(user_input))
        result == get_completion(h1, docs, resp, f)
    IN  [history |-> IF result.exc = ""
                     THEN Append(h1, ChatMessage("assistant", result.text))
                     ELSE Append(h1, ChatMessage("assistant", ErrorText(result.exc))),
         sent |-> FullMessages(h1, docs),
         result |-> result]

\* what uploaded_file.read().decode / extract_rfp_info give the upload handler
Undecodable == [kind |-> "undecodable", title |-> "", deadline |-> None, rest |-> None]
ExtractRaises == [kind |-> "raise", title |-> "", deadline |-> None, rest |-> None]
ExtractNone == [kind |-> "none", title |-> "", deadline |-> None, rest |-> None]
Extracted(title, deadline, rest) ==
    [kind |-> "record", title |-> title, deadline |-> deadline, rest |-> rest]

\* the record the model service parsed, id not yet assigned
ParsedRecord(e) ==
    RFPDocument(NoneId, e.title, "Acme", e.rest, e.rest, e.rest, e.deadline, e.rest)

UploadState(docs, f, processed, id, exc) ==
    [documents |-> docs, file |-> f, processed_files |-> processed,
     id |-> id, exc |-> exc]

\* the upload handler appending before it looks at what extraction gave
UploadAppendsFirst(docs, f, processed, file_id, e, io) ==
    IF file_id \in processed THEN UploadState(docs, f, processed, 0, "")
    ELSE IF e.kind = "undecodable" THEN UploadState(docs, f, processed, 0, "UnicodeDecodeError")
    ELSE LET id == get_next_id(docs)
             docs1 == Append(docs, [ParsedRecord(e) EXCEPT !.id = id])
             saved == save_documents(f, docs1, io)
         IN  IF e.kind = "record" /\ saved.exc = ""
             THEN UploadState(docs1, saved.file, processed \cup {file_id}, id, "")
             ELSE UploadState(docs1, saved.file, processed, 0, "Exception")

\* the upload handler (the "if uploaded_file is not None" block)
Upload(docs, f, processed, file_id, e, io) ==
    IF file_id \in processed THEN UploadState(docs, f, processed, 0, "")
    ELSE IF e.kind = "undecodable" THEN UploadState(docs, f, processed, 0, "UnicodeDecodeError")
    ELSE IF e.kind = "raise" THEN UploadState(docs, f, processed, 0, "APIError")
    ELSE IF e.kind = "none" THEN UploadState(docs, f, processed, 0, "AttributeError")
    ELSE LET id == get_next_id(docs)
             docs1 == Append(docs, [ParsedRecord(e) EXCEPT !.id = id])
             saved == save_documents(f, docs1, io)
         IN  IF saved.exc = ""
             THEN UploadState(docs1, saved.file, processed \cup {file_id}, id, "")
             ELSE UploadState(docs1, saved.file, processed, id, saved.exc)

\* the Clear Documents button; os.remove may fail and leave the file
ClearDocuments(f, io) ==
    [documents |-> <<>>, processed_files |-> {},
     file |-> IF f.kind /= "absent" /\ io = "ok" THEN FileAbsent ELSE f]

----------------------------------------------------------------------------
(* Inputs *)

FileIds == {"a.txt_10", "b.txt_20"}

RecMin == Extracted("RFP A", None, None)
RecFull == Extracted("RFP B", "2025-01-31", "text")
RecEmpty == Extracted("RFP C", "", "")

Extractions == {Undecodable, ExtractRaises, ExtractNone, RecFull}

IoOutcomes == {"ok", "open_fails", "write_fails"}

Questions == {"q1", "q2"}

Stored(e, id) == [ParsedRecord(e) EXCEPT !.id = id]

\* a stored dict that lacks the required title
BadRecord == [Stored(RecMin, 1) EXCEPT !.title = None]

\* storage files a session may find when it starts
InitialFiles ==
    {FileAbsent, FileNotJson, FileScalar, FileList(<<BadRecord>>),
     FileList(<<Stored(RecFull, 2)>>), FileList(<<Stored(RecMin, NoneId)>>)}

IdLists ==
    {<<>>, <<JInt(1)>>, <<JInt(5)>>, <<JInt(2), JInt(5)>>, <<JInt(3), JInt(1)>>,
     <<JInt(2), JInt(2)>>, <<JStr(2)>>, <<JInt(7), JInt(2), JInt(5)>>}

ArgCases ==
    {ArgsUnparseable, ArgsArray, ArgsNoIds, ArgsNullIds, ArgsNumberIds}
    \cup {ArgsIds(e) : e \in IdLists}

ToolNames == {"show_document_summary", "show_document_table"}

\* responses the session specification draws from
SessionResponses ==
    {ResponseRaises,
     Message("answer", <<>>),
     Message(None, <<ToolCall("show_document_summary", ArgsIds(<<JInt(2), JInt(5)>>))>>),
     Message(None, <<ToolCall("show_document_table", ArgsIds(<<>>)),
                     ToolCall("show_document_summary", ArgsIds(<<JInt(1)>>))>>)}

\* responses the tool specification draws from
ToolResponses ==
    {ResponseRaises, Message("answer", <<>>), Message("", <<>>), Message(None, <<>>)}
    \cup {Message(None, <<ToolCall(n, a)>>) : n \in ToolNames \cup {"lookup"}, a \in ArgCases}
    \cup {Message(None, <<ToolCall("show_document_table", ArgsIds(<<JInt(2), JInt(5)>>)),
                          ToolCall("show_document_summary", ArgsIds(<<JInt(2), JInt(5)>>))>>)}

\* stores of n records numbered 1..n
Stores ==
    UNION {{[i \in 1..n |-> Stored(k[i], i)] : k \in [1..n -> {RecMin, RecFull, RecEmpty}]}
           : n \in 0..MaxStore}

ToolFiles == {FileList(st) : st \in Stores} \cup {FileList(<<Stored(RecMin, NoneId)>>)}

----------------------------------------------------------------------------
(* Observation of the last handler run *)

NoExtract == [kind |-> "", title |-> "", deadline |-> None, rest |-> None]
NoResponse == [kind |-> "", content |-> None, tool_calls |-> <<>>]

Last(op, e, resp, result, sent) ==
    [op |-> op, extract |-> e, resp |-> resp, result |-> result, sent |-> sent]

----------------------------------------------------------------------------
(* The state machine *)

InitWith(files) ==
    /\ session = "start"
    /\ file \in files
    /\ documents = <<>>
    /\ processed_files = {}
    /\ chat_history = <<>>
    /\ last = Last("none", NoExtract, NoResponse, Returned(<<>>), <<>>)
    /\ assigned = [ids |-> <<>>, mark |-> 0, cleared |-> FALSE]

Init == InitWith(InitialFiles)

\* the first script run of a session: "documents" not in st.session_state
SessionStart ==
    /\ session = "start"
    /\ LET loaded == load_documents(file)
       IN  /\ session' = IF loaded.exc = "" THEN "ready" ELSE "crashed"
           /\ documents' = loaded.docs
           /\ last' = Last("start", NoExtract, NoResponse, Raised(loaded.exc), <<>>)
    /\ UNCHANGED <<file, processed_files, chat_history, assigned>>

UploadFile ==
    /\ session = "ready"
    /\ Len(documents) < MaxDocs
    /\ Len(assigned.ids) < MaxAssigned
    /\ \E file_id \in FileIds :
       \E e \in IF file_id \in processed_files THEN {NoExtract} ELSE Extractions :
       \E io \in IF e.kind = "record" THEN IoOutcomes ELSE {"ok"} :
          LET st == Upload(documents, file, processed_files, file_id, e, io)
          IN  /\ documents' = st.documents
              /\ file' = st.file
              /\ processed_files' = st.processed_files
              /\ assigned' = IF st.id /= 0
                             THEN [assigned EXCEPT !.ids = Append(@, st.id)]
                             ELSE assigned
              /\ last' = Last(IF file_id \in processed_files THEN "upload_skipped"
                              ELSE "upload",
                              e, NoResponse, Raised(st.exc), <<>>)
    /\ UNCHANGED <<session, chat_history>>

ClickClearChat ==
    /\ session = "ready"
    /\ chat_history' = <<>>
    /\ last' = Last("clear_chat", NoExtract, NoResponse, Returned(<<>>), <<>>)
    /\ UNCHANGED <<session, file, documents, processed_files, assigned>>

ClickClearDocuments ==
    /\ session = "ready"
    /\ \E io \in {"ok", "remove_fails"} :
          LET st == ClearDocuments(file, io)
          IN  /\ documents' = st.documents
              /\ processed_files' = st.processed_files
              /\ file' = st.file
              /\ last' = Last("clear_documents", NoExtract, NoResponse,
                              Raised(IF st.file = file /\ file.kind /= "absent"
                                     THEN "OSError" ELSE ""), <<>>)
    /\ assigned' = [assigned EXCEPT !.mark = Len(assigned.ids), !.cleared = TRUE]
    /\ UNCHANGED <<session, chat_history>>

Chat(questions, responses, exchanges) ==
    /\ session = "ready"
    /\ Len(chat_history) + 2 <= 2 * exchanges
    /\ \E user_input \in questions, resp \in responses :
          LET st == ChatInput(chat_history, documents, file, user_input, resp)
          IN  /\ chat_history' = st.history
              /\ last' = Last("chat", NoExtract, resp, st.result, st.sent)
    /\ UNCHANGED <<session, file, documents, processed_files, assigned>>

ChatQuestion == Chat({"q1"}, SessionResponses, MaxExchanges)

Next ==
    \/ SessionStart
    \/ UploadFile
    \/ ClickClearChat
    \/ ClickClearDocuments
    \/ ChatQuestion

Spec == Init /\ [][Next]_vars

\* one question put to the router over every store and every response
ToolInit == InitWith(ToolFiles)

ToolQuestion == Chat(Questions, ToolResponses, 1)

ToolNext ==
    \/ SessionStart
    \/ ToolQuestion
    \/ ClickClearChat

ToolSpec == ToolInit /\ [][ToolNext]_vars

----------------------------------------------------------------------------
(* Properties *)

StrictlyIncreasing(s) == \A i, j \in 1..Len(s) : i < j => s[i] < s[j]

\* ids assigned since the last Clear Documents
CurrentIds == SubSeq(assigned.ids, assigned.mark + 1, Len(assigned.ids))

\* the storage file as load_documents reads it now
Persisted == load_documents(file)

\* the first tool invocation of the last chat response
FirstCall == last.resp.tool_calls[1]

CalledTool(name) ==
    /\ last.op = "chat"
    /\ last.resp.kind = "message"
    /\ last.resp.tool_calls /= <<>>
    /\ FirstCall.name = name

\* arguments that match the declared schema: an object with an array of integers
SchemaValid(args) ==
    /\ args.kind = "object"
    /\ args.ids = "list"
    /\ \A k \in 1..Len(args.elems) : args.elems[k][1] = "int"

NonBlank(text) == SelectSeq(text, LAMBDA l : l /= Blank)

\* C1 as stated: over a whole session the ids assigned by successive uploads
\* are strictly increasing and never repeat, clear-and-reappend cycles
\* included, so no id is ever given to a second record.
C1_IdsNeverRepeat == StrictlyIncreasing(assigned.ids)

\* C1 amended: between two Clear Documents operations the assigned ids are
\* strictly increasing and no two records of the list share an id; each
\* assigned id is held by a record of the list; after a Clear Documents the
\* numbering restarts at 1 (so ids from before the clear are assigned again).
C1_IdsIncreaseBetweenClears ==
    /\ StrictlyIncreasing(CurrentIds)
    /\ \A i, j \in 1..Len(documents) :
          (i /= j /\ documents[i].id /= NoneId) => documents[i].id /= documents[j].id
    /\ \A k \in 1..Len(CurrentIds) :
          \E i \in 1..Len(documents) : documents[i].id = CurrentIds[k]
    /\ (assigned.cleared /\ CurrentIds /= <<>>) => CurrentIds[1] = 1

\* C1 witness: ids were assigned, the documents were cleared, and two more
\* uploads were numbered after the clear.
C1_Witness ==
    /\ assigned.cleared
    /\ assigned.mark >= 1
    /\ Len(CurrentIds) >= 2

\* C2: an upload whose extraction fails (the model call raises, or it returns
\* no parsed record) leaves the in-memory document list, the storage file and
\* the set of processed uploads as they were, and assigns no id.
C2_FailedExtractionChangesNothing ==
    [][(last'.op = "upload" /\ last'.extract.kind \in {"raise", "none"})
        => UNCHANGED <<documents, file, processed_files, assigned>>]_vars

\* C2 witness: an upload just failed because extraction returned no parsed
\* record, in a session that holds documents and a written storage file.
C2_Witness ==
    /\ last.op = "upload"
    /\ last.extract.kind = "none"
    /\ last.result.exc = "AttributeError"
    /\ documents /= <<>>
    /\ file.kind = "list"

\* C3: when the response carries tool invocations and the first names a catalog
\* tool with an argument object, get_completion returns that tool's output on
\* the documents re-loaded from the storage file (not on the snapshot or the
\* session's list), that output becomes the assistant turn, later invocations
\* play no part, and neither the file nor the list is modified.
C3_FirstToolOnReloadedStore ==
    [][(/\ last'.op = "chat"
        /\ last'.resp.kind = "message"
        /\ last'.resp.tool_calls /= <<>>
        /\ last'.resp.tool_calls[1].name \in ToolNames
        /\ last'.resp.tool_calls[1].arguments.kind = "object")
        => LET call == last'.resp.tool_calls[1]
               store == load_documents(file).docs
               out == IF call.name = "show_document_summary"
                      THEN Summarize(call.arguments, store)
                      ELSE Tabulate(call.arguments, store)
           IN  /\ last'.result = out
               /\ out.exc = "" =>
                     chat_history'[Len(chat_history')].content = out.text
               /\ UNCHANGED <<file, documents>>]_vars

\* C3 witness: a response with two invocations was answered while the storage
\* file and the session's list differ, and the reply is the first tool's table
\* of the file's documents, which is not the table of the session's list.
C3_Witness ==
    /\ CalledTool("show_document_table")
    /\ Len(last.resp.tool_calls) = 2
    /\ Persisted.docs /= documents
    /\ Persisted.docs /= <<>>
    /\ last.result.text = show_document_table(Persisted.docs)
    /\ last.result.text /= show_document_table(documents)

Alternates(history) ==
    /\ Len(history) % 2 = 0
    /\ \A i \in 1..Len(history) :
          history[i].role = IF i % 2 = 1 THEN "user" ELSE "assistant"

\* C4: every handler run leaves a history that alternates user, assistant; a
\* run changes the history only by emptying it (Clear Chat) or by appending
\* the user's turn and then exactly one assistant turn, whatever the model
\* call did; the messages sent are the system turn followed by the history up
\* to and including the new user turn, in order.
C4_HistoryAppendsUserThenAssistant ==
    [][/\ Alternates(chat_history')
       /\ \/ chat_history' = chat_history
          \/ last'.op = "clear_chat" /\ chat_history' = <<>>
          \/ LET n == Len(chat_history)
             IN  /\ last'.op = "chat"
                 /\ Len(chat_history') = n + 2
                 /\ SubSeq(chat_history', 1, n) = chat_history
                 /\ chat_history'[n + 1].role = "user"
                 /\ chat_history'[n + 2].role = "assistant"
                 /\ Len(last'.sent) = n + 2
                 /\ last'.sent[1] = ChatMessage("system", documents)
                 /\ Tail(last'.sent) = SubSeq(chat_history', 1, n + 1)]_vars

\* C4 witness: the second question of a conversation ended with the model call
\* raising, and the history holds four turns that end with the error turn.
C4_Witness ==
    /\ last.op = "chat"
    /\ last.resp.kind = "raise"
    /\ Len(chat_history) = 4
    /\ chat_history[4] = ChatMessage("assistant", ErrorText("APIError"))

\* C5 as stated: a tool invocation whose arguments do not match the declared
\* schema is answered with an error turn, never executed.
C5_InvalidArgumentsGetErrorReply ==
    (/\ last.op = "chat"
     /\ last.resp.kind = "message"
     /\ last.resp.tool_calls /= <<>>
     /\ FirstCall.name \in ToolNames
     /\ ~SchemaValid(FirstCall.arguments))
    => /\ last.result.exc /= ""
       /\ chat_history[Len(chat_history)] =
             ChatMessage("assistant", ErrorText(last.result.exc))

\* C6 as stated: the session's first load never raises; missing, unreadable
\* or corrupt persisted state loads as the empty sequence and the session runs.
C6_CorruptStateLoadsEmpty ==
    last.op = "start"
    => /\ last.result.exc = ""
       /\ session = "ready"
       /\ (file.kind /= "list" \/ \E i \in 1..Len(file.data) : ~ValidRecord(file.data[i]))
             => documents = <<>>

TableCall == CalledTool("show_document_table") /\ FirstCall.arguments = ArgsIds(<<>>)

\* the data rows of a table reply match the records, in order: the id and
\* deadline cells, with N/A for an absent deadline and no empty cell
RowsMatch(rows, docs) ==
    /\ Len(rows) = Len(docs)
    /\ \A i \in 1..Len(docs) :
          /\ Len(rows[i]) = 9
          /\ docs[i].id /= NoneId => rows[i][2] = ToString(docs[i].id)
          /\ rows[i][4] = docs[i].title
          /\ docs[i].deadline = None => rows[i][8] = "N/A"
          /\ Truthy(docs[i].deadline) => rows[i][8] = docs[i].deadline
          /\ \A c \in {2, 4, 6, 8} : rows[i][c] /= ""

HeaderThenRows(text, docs) ==
    /\ Len(text) = Len(docs) + 2
    /\ text[1] = TableHeader
    /\ text[2] = TableSeparator
    /\ RowsMatch(SubSeq(text, 3, Len(text)), docs)

\* C7 as stated: tabulate with empty ids over a store of N records, N >= 0,
\* returns one header/separator pair and then N data rows in store order,
\* N/A in the deadline cell of a record without deadline.
C7_HeaderAndNRows ==
    TableCall => last.result.exc = "" /\ HeaderThenRows(last.result.text, Persisted.docs)

\* C7 amended: for N >= 1 the reply is one header/separator pair and then N
\* data rows in store order, N/A in the deadline cell of a record without
\* deadline; for N = 0 it is the single line "No documents available." and
\* has no header/separator pair.
C7_HeaderAndNRowsUnlessEmpty ==
    TableCall =>
       /\ last.result.exc = ""
       /\ Persisted.docs /= <<>> => HeaderThenRows(last.result.text, Persisted.docs)
       /\ Persisted.docs = <<>> => last.result.text = << <<"No documents available.">> >>

\* C7 witness: the table of a store of three records, one of them without a
\* deadline, was returned with five lines.
C7_Witness ==
    /\ TableCall
    /\ Len(Persisted.docs) = 3
    /\ \E i \in 1..3 : Persisted.docs[i].deadline = None
    /\ Len(last.result.text) = 5

\* the lines the summary of one record must hold: title, company, then each
\* optional field that has content, in schema order, then the separator
ExpectedBlock(doc) ==
    LET optional == << <<"**Description:** ", doc.description>>,
                       <<"**Requirements:** ", doc.requirements>>,
                       <<"**Contact:** ", doc.contact>>,
                       <<"**Deadline:** ", doc.deadline>>,
                       <<"**Budget:** ", doc.budget>> >>
    IN  << <<"### ", doc.title>>, <<"**Company:** ", doc.company>> >>
        \o SelectSeq(optional, LAMBDA p : p[2] /= None /\ p[2] /= "")
        \o << <<"---">> >>

ExpectedSummary(elems, docs) ==
    Flatten([k \in 1..Len(elems) |->
        IF \E i \in 1..Len(docs) : <<"int", docs[i].id>> = elems[k]
        THEN ExpectedBlock(docs[CHOOSE i \in 1..Len(docs) : <<"int", docs[i].id>> = elems[k]])
        ELSE << <<"Document with ID ", ToString(elems[k][2]), " not found.">> >>])

\* C8: summarize over any store and any array of ids returns, for each id in
\* the order given, the block of the record with that id (title, company and
\* the optional fields that have content) or a "not found" line naming the id;
\* nothing for an empty array; it raises nothing and leaves file and list alone.
C8_SummaryPerIdInOrder ==
    [][(/\ last'.op = "chat"
        /\ last'.resp.kind = "message"
        /\ last'.resp.tool_calls /= <<>>
        /\ last'.resp.tool_calls[1].name = "show_document_summary"
        /\ last'.resp.tool_calls[1].arguments.ids = "list")
        => LET elems == last'.resp.tool_calls[1].arguments.elems
               store == load_documents(file).docs
           IN  /\ last'.result.exc = ""
               /\ NonBlank(last'.result.text) = ExpectedSummary(elems, store)
               /\ elems = <<>> => last'.result.text = <<>>
               /\ UNCHANGED <<file, documents>>]_vars

\* C8 witness: summarize [2, 5] over a store holding ids 1, 2, 3 returned the
\* block of record 2 followed by the line saying 5 was not found.
C8_Witness ==
    /\ CalledTool("show_document_summary")
    /\ FirstCall.arguments = ArgsIds(<<JInt(2), JInt(5)>>)
    /\ Len(Persisted.docs) = 3
    /\ Persisted.docs[2].deadline = None
    /\ last.result.text[1] = <<"### ", Persisted.docs[2].title>>
    /\ last.result.text[Len(last.result.text)] = <<"Document with ID ", "5", " not found.">>

Unmatched(elems, docs) ==
    {v \in Range(elems) : \A i \in 1..Len(docs) : <<"int", docs[i].id>> /= v}

\* C9: tabulate with a non-empty array of integer ids lists exactly the store
\* records whose id is in the array, in store order, one row each, and says
\* nothing of an id that matches no record; summarize on such ids gives a
\* "not found" line for every unmatched id.
C9_TabulateFiltersSilently ==
    /\ (/\ CalledTool("show_document_table")
        /\ SchemaValid(FirstCall.arguments)
        /\ FirstCall.arguments.elems /= <<>>)
       => LET elems == FirstCall.arguments.elems
              text == last.result.text
              rows == SelectSeq(text, LAMBDA l : Len(l) = 9)
              matching == SelectSeq(Persisted.docs,
                                    LAMBDA d : <<"int", d.id>> \in Range(elems))
          IN  /\ last.result.exc = ""
              /\ RowsMatch(rows, matching)
              /\ \A v \in Unmatched(elems, Persisted.docs) :
                    \A k \in 1..Len(text) : ToString(v[2]) \notin Range(text[k])
    /\ (/\ CalledTool("show_document_summary")
        /\ SchemaValid(FirstCall.arguments))
       => \A v \in Unmatched(FirstCall.arguments.elems, Persisted.docs) :
             <<"Document with ID ", ToString(v[2]), " not found.">>
                \in Range(last.result.text)

\* C9 witness: tabulate [2, 5] over a store holding ids 1, 2, 3 returned the
\* header pair and the row of id 2 only.
C9_Witness ==
    /\ CalledTool("show_document_table")
    /\ FirstCall.arguments = ArgsIds(<<JInt(2), JInt(5)>>)
    /\ [i \in 1..Len(Persisted.docs) |-> Persisted.docs[i].id] = <<1, 2, 3>>
    /\ Len(last.result.text) = 3
    /\ last.result.text[3][2] = "2"

\* C10 as stated: in a running session, after every handler run, what
\* load_documents reads from the storage file is the session's document list.
C10_PersistedEqualsInMemory ==
    session = "ready" => Persisted.exc = "" /\ Persisted.docs = documents

====
